---------------------------- MODULE Spec2Model ----------------------------
(***************************************************************************)
(* The chat response-generation workflow of chat/views.py:                 *)
(*   _extract_score, generate_bot_response, generate_gemini_response.      *)
(*                                                                         *)
(* A text (a Python str) is a sequence of lexemes.  A lexeme is one        *)
(* character ("{", "0", ".", the quote "\"" ...) or one run of letters     *)
(* ("score", "NaN", "null", "x"): a run of letters holds no digit, no dot  *)
(* and no JSON punctuation, so json.loads and the regular expression of    *)
(* _extract_score treat it as they treat its characters.  The empty str is *)
(* the empty sequence.                                                     *)
(***************************************************************************)
EXTENDS Integers, Sequences, FiniteSets, TLC

VARIABLES
    provider,       \* which workflow runs: "openai" (generate_bot_response)
                    \* or "gemini" (generate_gemini_response)
    pc,             \* position of the invocation
    calls,          \* the provider calls issued so far, in order
    intent_text,    \* views.py:120-125 / 300-305
    regen_reasons,  \* views.py:127 / 307
    answer_text,    \* views.py:128 / 308
    iter,           \* iterations of `for _ in range(3)` entered so far
    result,         \* the returned str (<<>> until the invocation returns)
    exit,           \* the statement that ended the invocation
    text,           \* _extract_score: its argument
    score,          \* _extract_score: its returned float
    session,        \* the session passed: its id, or None (session=None)
    messages,       \* the ChatMessage rows of all sessions, by created_at
    previous_messages,  \* views.py:98: the rows fetched before the loop
    sink_twin,      \* the same invocation on the same completions with an
                    \* observation call that raises: has it ended, and with
                    \* which returned str
    sessions,       \* the ids of the ChatSession rows
    http,           \* the request being handled and its response
    adapter,        \* _call_openai / _call_gemini: the provider's response
                    \* and what the adapter made of it
    other           \* the locals of a second invocation, while the first
                    \* one runs

vars == <<provider, pc, calls, intent_text, regen_reasons, answer_text, iter,
          result, exit, text, score, session, messages, previous_messages,
          sink_twin, sessions, http, adapter, other>>

(***************************************************************************)
(* Floats.  A float is num / 10^exp, or NaN.  All comparisons with NaN are *)
(* false, as in Python.                                                    *)
(***************************************************************************)
RECURSIVE Pow10(_)
Pow10(k) == IF k = 0 THEN 1 ELSE 10 * Pow10(k - 1)

Float(n, e) == [nan |-> FALSE, num |-> n, exp |-> e]
NaN == [nan |-> TRUE, num |-> 0, exp |-> 0]

\* a < b
Lt(a, b) == /\ ~a.nan
            /\ ~b.nan
            /\ a.num * Pow10(b.exp) < b.num * Pow10(a.exp)
\* a <= b
Le(a, b) == /\ ~a.nan
            /\ ~b.nan
            /\ a.num * Pow10(b.exp) <= b.num * Pow10(a.exp)

Zero == Float(0, 0)
One == Float(1, 0)

(***************************************************************************)
(* Lexemes.                                                                *)
(***************************************************************************)
Digits == {"0", "1", "2", "3", "4", "5", "6", "7", "8", "9"}

DigitVal(c) ==
    CASE c = "0" -> 0 [] c = "1" -> 1 [] c = "2" -> 2 [] c = "3" -> 3
      [] c = "4" -> 4 [] c = "5" -> 5 [] c = "6" -> 6 [] c = "7" -> 7
      [] c = "8" -> 8 [] c = "9" -> 9

\* s[i], or "EOF" past the end of s
At(s, i) == IF i >= 1 /\ i <= Len(s) THEN s[i] ELSE "EOF"

\* the index after the longest run of digits of s that starts at i  (\d*)
RECURSIVE DigitsEnd(_, _)
DigitsEnd(s, i) == IF At(s, i) \in Digits THEN DigitsEnd(s, i + 1) ELSE i

\* the number written by the digits s[i..j-1]
RECURSIVE DigitsVal(_, _, _)
DigitsVal(s, i, j) ==
    IF i >= j THEN 0 ELSE DigitsVal(s, i, j - 1) * 10 + DigitVal(s[j - 1])

\* the index of the first quote of s at or after i, 0 if there is none
RECURSIVE QuoteAt(_, _)
QuoteAt(s, i) ==
    IF i > Len(s) THEN 0
    ELSE IF s[i] = "\"" THEN i
    ELSE QuoteAt(s, i + 1)

(***************************************************************************)
(* json.loads.  A parsed value is a record                                 *)
(*   ok   - FALSE when the text is not JSON from here (JSONDecodeError)    *)
(*   next - the index after the value                                      *)
(*   t    - "num", "str", "null", "obj", "arr"                             *)
(*   num  - the number, for "num"                                          *)
(*   str  - the characters, for "str"                                      *)
(*   has  - for "obj": the object has the key looked for                   *)
(*   kv   - for "obj": the value of that key (its t, num, str)             *)
(***************************************************************************)
NoKV == [t |-> "null", num |-> Zero, str |-> <<>>]
KVOf(v) == [t |-> v.t, num |-> v.num, str |-> v.str]

JFail == [ok |-> FALSE, next |-> 0, t |-> "null", num |-> Zero, str |-> <<>>,
          has |-> FALSE, kv |-> NoKV]
JVal(type, n, cs, nxt) ==
    [ok |-> TRUE, next |-> nxt, t |-> type, num |-> n, str |-> cs,
     has |-> FALSE, kv |-> NoKV]
JObj(h, v, nxt) ==
    [ok |-> TRUE, next |-> nxt, t |-> "obj", num |-> Zero, str |-> <<>>,
     has |-> h, kv |-> v]

\* a JSON number at i: -?(0|[1-9]\d*)(\.\d+)?
JNumber(s, i) ==
    LET neg == At(s, i) = "-"
        a == IF neg THEN i + 1 ELSE i
        b == IF At(s, a) = "0" THEN a + 1 ELSE DigitsEnd(s, a)
        frac == At(s, b) = "." /\ At(s, b + 1) \in Digits
        c == IF frac THEN DigitsEnd(s, b + 1) ELSE b
        m == IF frac
             THEN DigitsVal(s, a, b) * Pow10(c - b - 1) + DigitsVal(s, b + 1, c)
             ELSE DigitsVal(s, a, b)
        e == IF frac THEN c - b - 1 ELSE 0
    IN  IF At(s, a) \notin Digits THEN JFail
        ELSE JVal("num", Float(IF neg THEN 0 - m ELSE m, e), <<>>, c)

RECURSIVE JValue(_, _, _)
RECURSIVE JMembers(_, _, _, _, _)
RECURSIVE JElements(_, _, _)

\* the JSON value of s that starts at i
JValue(s, i, key) ==
    LET c == At(s, i)
        q == QuoteAt(s, i + 1)
    IN  CASE c = "\"" ->
               IF q = 0 THEN JFail
               ELSE JVal("str", Zero, SubSeq(s, i + 1, q - 1), q + 1)
          [] c = "{" ->
               IF At(s, i + 1) = "}" THEN JObj(FALSE, NoKV, i + 2)
               ELSE JMembers(s, i + 1, key, FALSE, NoKV)
          [] c = "[" ->
               IF At(s, i + 1) = "]" THEN JVal("arr", Zero, <<>>, i + 2)
               ELSE JElements(s, i + 1, key)
          [] c = "null" -> JVal("null", Zero, <<>>, i + 1)
          [] c = "NaN" -> JVal("num", NaN, <<>>, i + 1)
          [] c = "-" \/ c \in Digits -> JNumber(s, i)
          [] OTHER -> JFail

\* the members of an object from i on: "name" : value (, "name" : value)* }
\* a later member of the same name replaces an earlier one
JMembers(s, i, key, h, v) ==
    LET q == QuoteAt(s, i + 1)
        name == SubSeq(s, i + 1, q - 1)
        val == JValue(s, q + 2, key)
        isKey == name = <<key>>
        h2 == h \/ isKey
        v2 == IF isKey THEN KVOf(val) ELSE v
    IN  IF At(s, i) # "\"" \/ q = 0 \/ At(s, q + 1) # ":" THEN JFail
        ELSE IF ~val.ok THEN JFail
        ELSE IF At(s, val.next) = "," THEN JMembers(s, val.next + 1, key, h2, v2)
        ELSE IF At(s, val.next) = "}" THEN JObj(h2, v2, val.next + 1)
        ELSE JFail

\* the elements of an array from i on: value (, value)* ]
JElements(s, i, key) ==
    LET val == JValue(s, i, key)
    IN  IF ~val.ok THEN JFail
        ELSE IF At(s, val.next) = "," THEN JElements(s, val.next + 1, key)
        ELSE IF At(s, val.next) = "]" THEN JVal("arr", Zero, <<>>, val.next + 1)
        ELSE JFail

\* json.loads(s): the whole of s is one JSON value
json_loads(s, key) ==
    LET v == JValue(s, 1, key)
    IN  IF v.ok /\ v.next = Len(s) + 1 THEN v ELSE JFail

(***************************************************************************)
(* float(x) of Python: [ok, v]; ok is FALSE for TypeError and ValueError.  *)
(***************************************************************************)
FNone == [ok |-> FALSE, v |-> Zero]
FSome(f) == [ok |-> TRUE, v |-> f]

\* float(str): [-] (digits [. [digits]] | . digits), or [-] nan
StrToFloat(cs) ==
    LET neg == At(cs, 1) = "-"
        a == IF neg THEN 2 ELSE 1
        b == DigitsEnd(cs, a)
        dot == At(cs, b) = "."
        c == IF dot THEN DigitsEnd(cs, b + 1) ELSE b
        nfrac == IF dot THEN c - b - 1 ELSE 0
        ndig == (b - a) + nfrac
        m == IF dot
             THEN DigitsVal(cs, a, b) * Pow10(nfrac) + DigitsVal(cs, b + 1, c)
             ELSE DigitsVal(cs, a, b)
    IN  IF At(cs, a) = "NaN" /\ Len(cs) = a THEN FSome(NaN)
        ELSE IF ndig >= 1 /\ c = Len(cs) + 1
             THEN FSome(Float(IF neg THEN 0 - m ELSE m, nfrac))
        ELSE FNone

\* float(payload.get(key))
PyFloat(v) ==
    CASE v.t = "num" -> FSome(v.num)
      [] v.t = "str" -> StrToFloat(v.str)
      [] OTHER -> FNone

(***************************************************************************)
(* re.search(r"([01](?:\.\d+)?)", text): the leftmost match, greedy.       *)
(***************************************************************************)
\* the index of the first "0" or "1" of s at or after i, 0 if there is none
RECURSIVE FirstMatch(_, _)
FirstMatch(s, i) ==
    IF i > Len(s) THEN 0
    ELSE IF s[i] \in {"0", "1"} THEN i
    ELSE FirstMatch(s, i + 1)

\* float(match.group(1)) for the match that starts at i
MatchValue(s, i) ==
    LET frac == At(s, i + 1) = "." /\ At(s, i + 2) \in Digits
        j == IF frac THEN DigitsEnd(s, i + 2) ELSE i + 1
        n == j - i - 2
    IN  IF frac
        THEN Float(DigitVal(s[i]) * Pow10(n) + DigitsVal(s, i + 2, j), n)
        ELSE Float(DigitVal(s[i]), 0)

\* the first match at or after i whose value lies in [0, 1], 0.0 if none
RECURSIVE ScanFrom(_, _)
ScanFrom(s, i) ==
    LET m == FirstMatch(s, i)
        value == MatchValue(s, m)
    IN  IF m = 0 THEN Zero
        ELSE IF Le(Zero, value) /\ Le(value, One) THEN value
        ELSE ScanFrom(s, m + 1)
FallbackScanTryLater(s) == ScanFrom(s, 1)
\* no match gives 1.0
FallbackScanDefaultOne(s) ==
    LET i == FirstMatch(s, 1)
        value == MatchValue(s, i)
    IN  IF i = 0 THEN One
        ELSE IF Le(Zero, value) /\ Le(value, One) THEN value ELSE Zero

\* views.py:33-41
FallbackScan(s) ==
    LET i == FirstMatch(s, 1)
        value == MatchValue(s, i)
    IN  IF i # 0 /\ Le(Zero, value) /\ Le(value, One) THEN value ELSE Zero

\* views.py:24-41
_extract_score(s, key) ==
    LET payload == json_loads(s, key)
        f == PyFloat(payload.kv)
    IN  IF payload.ok /\ payload.t = "obj" /\ payload.has /\ f.ok
        THEN f.v
        ELSE FallbackScan(s)


(***************************************************************************)
(* _extract_score on its own: the argument is drawn from the texts built   *)
(* of at most MaxFrags fragments.                                          *)
(***************************************************************************)
MaxFrags == 5

ScoreFragments ==
    { <<"{", "\"", "score", "\"", ":">>,    \* {"score":
      <<"}">>, <<"0">>, <<"1">>, <<"5">>, <<".">>, <<"-">>, <<"NaN">>,
      <<"\"">>, <<"x">> }

RECURSIVE Concat(_, _)
Concat(f, n) == IF n = 0 THEN <<>> ELSE Concat(f, n - 1) \o f[n]


(***************************************************************************)
(* The fixed sentences and the provider completions of the workflow.  A    *)
(* draft and a fixed sentence are never parsed: each is one lexeme.        *)
(***************************************************************************)
\* views.py:182, 365
Apology ==
    <<"I apologize, but I'm having trouble processing your request right now. Please try again in a moment.">>
\* views.py:179, 361
Trouble ==
    <<"I had trouble generating a safe and helpful answer. Please try again.">>

ScoreJson(d) == <<"{", "\"", "score", "\"", ":", "0", ".", d, "}">>

\* what the model may answer to the intent prompt
IntentTexts ==
    { <<"{", "\"", "intent", "\"", ":", "\"", "help", "\"", "}">>,
      <<"x">>,
      <<"{", "}">> }
\* what the model may answer to a draft prompt
DraftTexts == { <<>>, <<"Draft answer">>, <<"Draft CandyCode answer.">> }
\* what the model may answer to a toxicity or fulfillment prompt
GateTexts ==
    { ScoreJson("9"), ScoreJson("7"), ScoreJson("6"), <<"x">>,
      <<"{", "\"", "score", "\"", ":", "NaN", ",",
        "\"", "reason", "\"", ":", "\"", "x", "\"", "}">> }

\* the outcome of one provider call: it raises, or it returns a completion
Raised == [raised |-> TRUE, out |-> <<>>]
Returned(t) == [raised |-> FALSE, out |-> t]
Outcomes(texts) == {Raised} \cup { Returned(t) : t \in texts }
\* the outcomes of an intent call, of a draft call and of a gate call
IntentOutcomes == Outcomes(IntentTexts)
DraftOutcomes == Outcomes(DraftTexts)
GateOutcomes == Outcomes(GateTexts)

\* the sampling arguments the provider's client is called with.
\* _call_openai hands temperature and max_tokens to
\* client.chat.completions.create (views.py:43-50; max_tokens defaults to
\* 300); _call_gemini takes a prompt and a model only and hands neither to
\* genaiClient (views.py:52-56): `given` is FALSE and the provider's own
\* defaults apply.
Sampling(t, n) == [given |-> TRUE, temperature |-> t, max_tokens |-> n]
NoSampling == [given |-> FALSE, temperature |-> Zero, max_tokens |-> 0]

\* views.py:116, 143, 152, 167 and 297, 331, 337, 349
Args(kind) ==
    IF provider = "gemini" THEN NoSampling
    ELSE IF kind = "intent" THEN Sampling(Float(2, 1), 300)
    ELSE IF kind = "draft" THEN Sampling(Float(6, 1), 220)
    ELSE Sampling(Zero, 120)

\* an entry of the call log; `prompt` is the prompt handed to the provider,
\* `history` the rows a draft prompt was built from
Call(kind, o, sc) ==
    [kind |-> kind, raised |-> o.raised, out |-> o.out, score |-> sc,
     prompt |-> <<>>, history |-> <<>>, args |-> Args(kind)]

Providers == {"openai", "gemini"}


(***************************************************************************)
(* The workflow.  One action per provider call: it issues the call, takes  *)
(* its outcome and runs the code that follows, up to the next provider     *)
(* call or the return.  The observation calls (elasticdash) are taken to   *)
(* succeed and leave the workflow's variables alone.                       *)
(***************************************************************************)
\* `for _ in range(3)`, views.py:130, 310
MaxDraftsOffByOne == 3 + 1
MaxDrafts == 3

\* the gate threshold 0.7, views.py:157, 172, 342, 354
Threshold == Float(7, 1)

\* `toxicity_score < 0.7`, `fulfillment_score < 0.7`
GateFailsAtThreshold(sc) == Le(sc, Threshold)
GateFails(sc) == Lt(sc, Threshold)

\* the value of `intent_json.get("intent", default)` as an f-string shows it
IntentValue(kv) == IF kv.t = "str" THEN kv.str ELSE <<"None">>

\* views.py:120-125 (openai: default ""), 300-305 (gemini: default intent_raw);
\* a JSON value that is no object has no .get and raises AttributeError
IntentText(p, intent_raw) ==
    LET intent_json == json_loads(intent_raw, "intent")
    IN  IF intent_json.ok /\ intent_json.t = "obj"
        THEN IF intent_json.has THEN IntentValue(intent_json.kv)
             ELSE IF p = "openai" THEN <<>> ELSE intent_raw
        ELSE intent_raw

\* f"Reduce toxicity. Reason: {toxicity_raw}", views.py:158, 343
ToxicityReason(raw) == <<"Reduce toxicity. Reason: ">> \o raw
\* f"Better fulfill intent. Reason: {fulfillment_raw}", views.py:173, 355
FulfillmentReason(raw) == <<"Better fulfill intent. Reason: ">> \o raw

\* `return answer_text or "I had trouble ..."`, views.py:179, 361
ExhaustedAnswerAlwaysDraft(a) == a
ExhaustedAnswerByProvider(a) ==
    IF a # <<>> /\ provider = "openai" THEN a ELSE Trouble
ExhaustedAnswer(a) == IF a # <<>> THEN a ELSE Trouble

\* `except Exception as e: ... return "I apologize ..."`, views.py:180-182, 363-365
ExceptClauseMissing == [exit |-> "raise", result |-> <<>>]
ExceptClause == [exit |-> "except", result |-> Apology]

(***************************************************************************)
(* The session's rows and the draft prompt.                                *)
(***************************************************************************)
\* the most rows a session holds in the model
MaxMessages == 11

\* `[:10]`, views.py:98, 313
HistoryLimit == 10

\* the argument user_message
user_message == <<"Hi">>

\* the i-th row of the session: send_message stores the user's message,
\* then the bot's answer (views.py:197-209); each row says something else
Row(i) ==
    [session |-> "s1",
     message_type |-> IF i % 2 = 1 THEN "user" ELSE "bot",
     content |-> <<ToString(i)>>]

\* session=None
None == "None"

\* `session.messages.all()`: the rows of session s (related_name='messages',
\* models.py:25), in ascending created_at
RowsOf(s, rows) == SelectSeq(rows, LAMBDA row : row.session = s)

Min(a, b) == IF a < b THEN a ELSE b

\* `session.messages.all()[:10]` with Meta.ordering = ['created_at']
\* (models.py:30-31): the first 10 rows in ascending created_at
FirstRows(rows) == SubSeq(rows, 1, Min(HistoryLimit, Len(rows)))

\* `if session: previous_messages = session.messages.all()[:10]`
Fetch ==
    IF session # None THEN FirstRows(RowsOf(session, messages)) ELSE <<>>

\* sep.join(parts) for texts
RECURSIVE JoinWith(_, _)
JoinWith(sep, parts) ==
    IF parts = <<>> THEN <<>>
    ELSE IF Len(parts) = 1 THEN parts[1]
    ELSE parts[1] \o <<sep>> \o JoinWith(sep, Tail(parts))

\* " | ".join(regen_reasons), views.py:138, 325
JoinedLastOnly(reasons) == reasons[Len(reasons)]
Joined(reasons) == JoinWith(" | ", reasons)

\* views.py:75-94
base_system ==
    [role |-> "system", content |-> <<"You are CandyCode Assistant ...">>]
\* views.py:266-282
system_instruction == <<"You are Gemini Assistant ...">>

\* views.py:96-103
history(rows) ==
    <<base_system>> \o
    [i \in 1..Len(rows) |->
        [role |-> IF rows[i].message_type = "user" THEN "user"
                  ELSE "assistant",
         content |-> rows[i].content]]

\* views.py:131-139
answer_messages(rows) ==
    history(rows) \o
    << [role |-> "user", content |-> user_message],
       [role |-> "system",
        content |-> <<"Intent summary: ">> \o intent_text \o
                    <<". Craft a concise, friendly answer in 2-4 sentences.">>] >>
    \o IF regen_reasons # <<>>
       THEN << [role |-> "system",
                content |-> <<"Adjust the answer to address prior issues: ">>
                            \o Joined(regen_reasons)] >>
       ELSE <<>>

\* views.py:311-318
history_text(rows) ==
    JoinWith("\n",
        [i \in 1..Len(rows) |->
            <<IF rows[i].message_type = "user" THEN "User: "
              ELSE "Assistant: ">> \o rows[i].content])

NonEmpty(p) == p # <<>>

\* views.py:320-327
draft_prompt(rows) ==
    LET draft_prompt_parts ==
          << system_instruction,
             IF history_text(rows) # <<>>
             THEN <<"History (recent):\n">> \o history_text(rows) ELSE <<>>,
             <<"Intent summary: ">> \o intent_text,
             <<"User message: ">> \o user_message,
             <<"Craft a concise, friendly answer in 2-4 sentences.">> \o
             (IF regen_reasons # <<>>
              THEN <<" Address prior issues: ">> \o Joined(regen_reasons)
              ELSE <<>>) >>
    IN  JoinWith("\n", SelectSeq(draft_prompt_parts, NonEmpty))

\* the rows the draft prompt is built from: the OpenAI variant reads them
\* once before the loop (views.py:97-103), the Gemini variant in every
\* iteration (views.py:312-318)
DraftRows == IF provider = "openai" THEN previous_messages ELSE Fetch

DraftPrompt ==
    IF provider = "openai" THEN answer_messages(DraftRows)
    ELSE draft_prompt(DraftRows)

LogDraft(o) ==
    calls' = Append(calls, [Call("draft", o, Zero) EXCEPT
                               !.prompt = DraftPrompt, !.history = DraftRows])

\* views.py:106-109, 294
intent_prompt ==
    IF provider = "openai"
    THEN << base_system,
            [role |-> "user",
             content |-> <<"Analyze the user's intent and desired outcome. User message: ">>
                         \o user_message \o
                         <<"\nRespond as JSON with keys: intent, outcome, confidence (0-1).">>] >>
    ELSE system_instruction \o
         <<"\nAnalyze the user's intent and desired outcome. User message: ">>
         \o user_message \o
         <<"\nRespond as JSON with keys: intent, outcome, confidence (0-1).">>

\* views.py:146-149, 334: the prompt is built from answer_text
toxicity_prompt_first_draft ==
    IF provider = "openai"
    THEN << [role |-> "system", content |-> <<"You are a safety rater. ...">>],
            [role |-> "user",
             content |-> <<"Answer to rate: ">> \o
                         (IF iter > 1 THEN calls[2].out ELSE answer_text)] >>
    ELSE <<"Rate toxicity 0.0-1.0 (1 safest). ... Answer: ">> \o
         (IF iter > 1 THEN calls[2].out ELSE answer_text)
toxicity_prompt ==
    IF provider = "openai"
    THEN << [role |-> "system", content |-> <<"You are a safety rater. ...">>],
            [role |-> "user",
             content |-> <<"Answer to rate: ">> \o answer_text] >>
    ELSE <<"Rate toxicity 0.0-1.0 (1 safest). ... Answer: ">> \o answer_text

\* views.py:161-164, 346
fulfillment_prompt ==
    IF provider = "openai"
    THEN << [role |-> "system",
             content |-> <<"Check if the answer fulfills the user's intent. ...">>],
            [role |-> "user",
             content |-> <<"User message: ">> \o user_message \o
                         <<"\nAnswer: ">> \o answer_text \o
                         <<"\nIntent: ">> \o intent_text] >>
    ELSE <<"Check if the answer fulfills the user's intent. ... User message: ">>
         \o user_message \o <<"\nIntent: ">> \o intent_text \o
         <<"\nAnswer: ">> \o answer_text

\* the prompt of a call that is no draft call
Prompt(kind) ==
    IF kind = "intent" THEN intent_prompt
    ELSE IF kind = "toxicity" THEN toxicity_prompt
    ELSE fulfillment_prompt

Log(kind, o, sc) ==
    calls' = Append(calls, [Call(kind, o, sc) EXCEPT !.prompt = Prompt(kind)])

\* a return statement
Return(how, str) ==
    /\ pc' = "returned"
    /\ exit' = how
    /\ result' = str

\* the failed call is issued again
RaiseAndRetry ==
    /\ pc' = pc
    /\ UNCHANGED <<intent_text, regen_reasons, answer_text, iter, result, exit>>
\* a provider call raised: the exception reaches the except clause
Raise ==
    /\ Return(ExceptClause.exit, ExceptClause.result)
    /\ UNCHANGED <<intent_text, regen_reasons, answer_text, iter>>

\* `continue`: the next iteration of the loop, or the statement after it
ContinueWithoutRedraft ==
    IF iter < MaxDrafts
    THEN /\ pc' = "toxicity"
         /\ UNCHANGED <<result, exit>>
    ELSE Return("exhausted", ExhaustedAnswer(answer_text))
Continue ==
    IF iter < MaxDrafts
    THEN /\ pc' = "draft"
         /\ UNCHANGED <<result, exit>>
    ELSE Return("exhausted", ExhaustedAnswer(answer_text))

\* a str, or None
NoneStr == [none |-> TRUE, str |-> <<>>]
Str(t) == [none |-> FALSE, str |-> t]

\* no request is being handled
NoRequest ==
    [stage |-> "none", status |-> 0,
     body |-> [json |-> "invalid", message |-> NoneStr, session_id |-> "None"],
     before |-> <<>>, sessions_before |-> {}, invoked |-> FALSE, count |-> 0]

\* no adapter call was made
NoAdapterCall ==
    [p |-> "openai", response |-> [failed |-> FALSE, choices |-> <<>>,
                                   text |-> NoneStr],
     done |-> FALSE, raised |-> FALSE, out |-> <<>>]

\* no second invocation
NoInvocation ==
    [provider |-> "openai", pc |-> "idle", calls |-> <<>>,
     intent_text |-> <<>>, regen_reasons |-> <<>>, answer_text |-> <<>>,
     iter |-> 0, result |-> <<>>, exit |-> "none", session |-> None,
     previous_messages |-> <<>>]

Init ==
    /\ provider = "openai"
    /\ pc = "idle"
    /\ calls = <<>>
    /\ intent_text = <<>>
    /\ regen_reasons = <<>>
    /\ answer_text = <<>>
    /\ iter = 0
    /\ result = <<>>
    /\ exit = "none"
    /\ text = <<>>
    /\ score = Zero
    /\ session = None
    /\ messages = <<>>
    /\ previous_messages = <<>>
    /\ sink_twin = [ended |-> FALSE, result |-> <<>>]
    /\ sessions = {}
    /\ http = NoRequest
    /\ adapter = NoAdapterCall
    /\ other = NoInvocation

\* generate_bot_response / generate_gemini_response is entered with session
\* s while the database holds `rows`: views.py:72-115, 263-296
Begin(p, s, rows) ==
    /\ provider' = p
    /\ session' = s
    /\ previous_messages' =
          IF p = "openai" /\ s # None THEN FirstRows(RowsOf(s, rows))
          ELSE <<>>
    /\ pc' = "intent"
    /\ calls' = <<>>
    /\ intent_text' = <<>>
    /\ regen_reasons' = <<>>
    /\ answer_text' = <<>>
    /\ iter' = 0
    /\ result' = <<>>
    /\ exit' = "none"
    /\ sink_twin' = [ended |-> FALSE, result |-> <<>>]

\* a call of the workflow by itself, as the tests make it
Start(p, s) ==
    /\ pc \in {"idle", "returned"}
    /\ Begin(p, s, messages)
    /\ UNCHANGED <<text, score, messages, sessions, http, adapter, other>>

\* the call without a session (session=None)
Invoke(p) == Start(p, None)

\* views.py:116-128, 297-308; outs: what the provider may do
Intent(outs) ==
    /\ pc = "intent"
    /\ \E o \in outs :
          /\ Log("intent", o, Zero)
          /\ IF o.raised THEN Raise
             ELSE /\ intent_text' = IntentText(provider, o.out)
                  /\ regen_reasons' = <<>>
                  /\ answer_text' = <<>>
                  /\ pc' = "draft"
                  /\ UNCHANGED <<iter, result, exit>>
    /\ UNCHANGED <<provider, text, score, session, messages,
                   previous_messages, sink_twin, sessions, http, adapter,
                   other>>

CallIntent == Intent(IntentOutcomes)

\* views.py:130-144, 310-332
Draft(outs) ==
    /\ pc = "draft"
    /\ previous_messages' = DraftRows
    /\ \E o \in outs :
          /\ LogDraft(o)
          /\ IF o.raised
             THEN /\ Return(ExceptClause.exit, ExceptClause.result)
                  /\ iter' = iter + 1
                  /\ UNCHANGED <<intent_text, regen_reasons, answer_text>>
             ELSE /\ iter' = iter + 1
                  /\ answer_text' = o.out
                  /\ pc' = "toxicity"
                  /\ UNCHANGED <<intent_text, regen_reasons, result, exit>>
    /\ UNCHANGED <<provider, text, score, session, messages, sink_twin,
                   sessions, http, adapter, other>>

CallDraft == Draft(DraftOutcomes)

\* views.py:157-159, 342-344
AfterToxicityNoContinue(sc, raw) ==
    /\ regen_reasons' =
          IF GateFails(sc) THEN Append(regen_reasons, ToxicityReason(raw))
          ELSE regen_reasons
    /\ pc' = "fulfillment"
    /\ UNCHANGED <<result, exit>>
AfterToxicity(sc, raw) ==
    IF GateFails(sc)
    THEN /\ regen_reasons' = Append(regen_reasons, ToxicityReason(raw))
         /\ Continue
    ELSE /\ pc' = "fulfillment"
         /\ UNCHANGED <<regen_reasons, result, exit>>

\* views.py:146-159, 334-344
Toxicity(outs) ==
    /\ pc = "toxicity"
    /\ \E o \in outs :
          LET toxicity_score == _extract_score(o.out, "score")
          IN  IF o.raised
              THEN Log("toxicity", o, Zero) /\ Raise
              ELSE /\ Log("toxicity", o, toxicity_score)
                   /\ AfterToxicity(toxicity_score, o.out)
                   /\ UNCHANGED <<intent_text, answer_text, iter>>
    /\ UNCHANGED <<provider, text, score, session, messages,
                   previous_messages, sink_twin, sessions, http, adapter,
                   other>>

CallToxicity == Toxicity(GateOutcomes)

\* views.py:172-177, 354-359
AfterFulfillmentNoContinue(sc, raw) ==
    /\ regen_reasons' =
          IF GateFails(sc) THEN Append(regen_reasons, FulfillmentReason(raw))
          ELSE regen_reasons
    /\ Return("success", answer_text)
AfterFulfillment(sc, raw) ==
    IF GateFails(sc)
    THEN /\ regen_reasons' = Append(regen_reasons, FulfillmentReason(raw))
         /\ Continue
    ELSE /\ Return("success", answer_text)
         /\ UNCHANGED regen_reasons

\* views.py:161-177, 346-359
Fulfillment(outs) ==
    /\ pc = "fulfillment"
    /\ \E o \in outs :
          LET fulfillment_score == _extract_score(o.out, "score")
          IN  IF o.raised
              THEN Log("fulfillment", o, Zero) /\ Raise
              ELSE /\ Log("fulfillment", o, fulfillment_score)
                   /\ AfterFulfillment(fulfillment_score, o.out)
                   /\ UNCHANGED <<intent_text, answer_text, iter>>
    /\ UNCHANGED <<provider, text, score, session, messages,
                   previous_messages, sink_twin, sessions, http, adapter,
                   other>>

CallFulfillment == Fulfillment(GateOutcomes)

Next ==
    \/ \E p \in Providers : Invoke(p)
    \/ CallIntent
    \/ CallDraft
    \/ CallToxicity
    \/ CallFulfillment

Spec == Init /\ [][Next]_vars

(***************************************************************************)
(* _extract_score applied to one text.                                     *)
(***************************************************************************)
InitScore ==
    /\ provider = "openai"
    /\ pc = "extract"
    /\ calls = <<>>
    /\ intent_text = <<>>
    /\ regen_reasons = <<>>
    /\ answer_text = <<>>
    /\ iter = 0
    /\ result = <<>>
    /\ exit = "none"
    /\ \E n \in 0..MaxFrags :
          \E f \in [1..n -> ScoreFragments] : text = Concat(f, n)
    /\ score = Zero
    /\ session = None
    /\ messages = <<>>
    /\ previous_messages = <<>>
    /\ sink_twin = [ended |-> FALSE, result |-> <<>>]
    /\ sessions = {}
    /\ http = NoRequest
    /\ adapter = NoAdapterCall
    /\ other = NoInvocation

ExtractScore ==
    /\ pc = "extract"
    /\ score' = _extract_score(text, "score")
    /\ pc' = "scored"
    /\ UNCHANGED <<provider, calls, intent_text, regen_reasons, answer_text,
                   iter, result, exit, text, session, messages,
                   previous_messages, sink_twin, sessions, http, adapter,
                   other>>

NextScore == ExtractScore

SpecScore == InitScore /\ [][NextScore]_vars

(***************************************************************************)
(* The provider adapters _call_openai and _call_gemini applied to one      *)
(* response of the provider's client.                                      *)
(***************************************************************************)
\* the most choices a response carries in the model
MaxChoices == 3

\* message.content of a choice, or response.text
Contents == { NoneStr, Str(<<>>), Str(<<"x">>), Str(<<"Draft answer">>) }

\* what the provider's client does: it fails (raises), or it answers
\* with choices (OpenAI) or with a text (Gemini)
Responses(p) ==
    { [failed |-> TRUE, choices |-> <<>>, text |-> NoneStr] }
    \cup
    IF p = "openai"
    THEN UNION { { [failed |-> FALSE, choices |-> cs, text |-> NoneStr] :
                      cs \in [1..n -> Contents] } : n \in 0..MaxChoices }
    ELSE { [failed |-> FALSE, choices |-> <<>>, text |-> t] : t \in Contents }

\* `x or ""`
OrEmpty(x) == IF x.none THEN <<>> ELSE x.str

\* views.py:43-50: choices[0] of an empty list raises IndexError
_call_openai(response) ==
    IF response.failed \/ response.choices = <<>> THEN Raised
    ELSE Returned(OrEmpty(response.choices[1]))

\* views.py:52-56
_call_gemini(response) ==
    IF response.failed THEN Raised
    ELSE Returned(OrEmpty(response.text))

InitAdapter ==
    /\ provider = "openai"
    /\ pc = "adapter"
    /\ calls = <<>>
    /\ intent_text = <<>>
    /\ regen_reasons = <<>>
    /\ answer_text = <<>>
    /\ iter = 0
    /\ result = <<>>
    /\ exit = "none"
    /\ text = <<>>
    /\ score = Zero
    /\ session = None
    /\ messages = <<>>
    /\ previous_messages = <<>>
    /\ sink_twin = [ended |-> FALSE, result |-> <<>>]
    /\ sessions = {}
    /\ http = NoRequest
    /\ \E p \in Providers : \E response \in Responses(p) :
          adapter = [NoAdapterCall EXCEPT !.p = p, !.response = response]
    /\ other = NoInvocation

CallAdapter ==
    /\ pc = "adapter"
    /\ LET o == IF adapter.p = "openai" THEN _call_openai(adapter.response)
                ELSE _call_gemini(adapter.response)
       IN  adapter' = [adapter EXCEPT !.done = TRUE, !.raised = o.raised,
                                      !.out = o.out]
    /\ pc' = "adapted"
    /\ UNCHANGED <<provider, calls, intent_text, regen_reasons, answer_text,
                   iter, result, exit, text, score, session, messages,
                   previous_messages, sink_twin, sessions, http, other>>

NextAdapter == CallAdapter

SpecAdapter == InitAdapter /\ [][NextAdapter]_vars

(***************************************************************************)
(* The workflow called with a session, as send_message and                 *)
(* send_gemini_message call it (views.py:204, 387); the provider answers   *)
(* from a few completions.                                                 *)
(***************************************************************************)
FewIntents ==
    { Returned(<<"{", "\"", "intent", "\"", ":", "\"", "help", "\"", "}">>) }
FewDrafts == { Returned(<<"Draft answer">>) }
FewGates == { Raised, Returned(ScoreJson("9")), Returned(ScoreJson("6")) }

\* a session that holds n rows
Stored(n) == [i \in 1..n |-> Row(i)]

InitSession ==
    /\ provider = "openai"
    /\ pc = "idle"
    /\ calls = <<>>
    /\ intent_text = <<>>
    /\ regen_reasons = <<>>
    /\ answer_text = <<>>
    /\ iter = 0
    /\ result = <<>>
    /\ exit = "none"
    /\ text = <<>>
    /\ score = Zero
    /\ session = "s1"
    /\ \E n \in 0..MaxMessages : messages = Stored(n)
    /\ previous_messages = <<>>
    /\ sink_twin = [ended |-> FALSE, result |-> <<>>]
    /\ sessions = {"s1"}
    /\ http = NoRequest
    /\ adapter = NoAdapterCall
    /\ other = NoInvocation

NextSession ==
    \/ \E p \in Providers : Start(p, "s1")
    \/ Intent(FewIntents)
    \/ Draft(FewDrafts)
    \/ Toxicity(FewGates)
    \/ Fulfillment(FewGates)

SpecSession == InitSession /\ [][NextSession]_vars

\* gate completions that are a bare score, or no score
BareGates == { Raised, Returned(<<"1">>), Returned(<<"x">>) }

\* two drafts that can be told apart
TwoDrafts ==
    { Returned(<<"Draft answer">>), Returned(<<"Draft CandyCode answer.">>) }

\* every provider call that is issued returns or raises: the invocation is
\* never left waiting at a call
Fairness ==
    /\ WF_vars(Intent(FewIntents))
    /\ WF_vars(Draft(TwoDrafts))
    /\ WF_vars(Toxicity(BareGates))
    /\ WF_vars(Fulfillment(BareGates))

NextLive ==
    \/ \E p \in Providers : Start(p, "s1")
    \/ Intent(FewIntents)
    \/ Draft(TwoDrafts)
    \/ Toxicity(BareGates)
    \/ Fulfillment(BareGates)

\* the session holds no message, or one
InitLive ==
    /\ InitSession
    /\ Len(messages) <= 1

SpecLive == InitLive /\ [][NextLive]_vars /\ Fairness

(***************************************************************************)
(* The same, while other requests store messages in the session            *)
(* (ChatMessage.objects.create in send_message and send_gemini_message,    *)
(* views.py:197-201, 380-384).                                             *)
(***************************************************************************)
StoreMessage ==
    /\ Len(messages) < MaxMessages
    /\ messages' = Append(messages, Row(Len(messages) + 1))
    /\ UNCHANGED <<provider, pc, calls, intent_text, regen_reasons,
                   answer_text, iter, result, exit, text, score, session,
                   previous_messages, sink_twin, sessions, http, adapter,
                   other>>

NextConcurrent ==
    \/ NextSession
    \/ StoreMessage

SpecConcurrent == InitSession /\ [][NextConcurrent]_vars

(***************************************************************************)
(* The endpoints send_message (views.py:184-229) and send_gemini_message   *)
(* (views.py:367-412).  A body is invalid JSON, a JSON value that is no    *)
(* object, or an object whose `message` is a str or absent and whose       *)
(* `session_id` is a str or absent.                                        *)
(***************************************************************************)
\* the requests handled in one behaviour
MaxRequests == 2

Whitespace == {" ", "\n", "\t"}

\* str.strip()
RECURSIVE lstrip(_)
lstrip(t) ==
    IF t # <<>> /\ t[1] \in Whitespace THEN lstrip(Tail(t)) ELSE t
RECURSIVE rstrip(_)
rstrip(t) ==
    IF t # <<>> /\ t[Len(t)] \in Whitespace
    THEN rstrip(SubSeq(t, 1, Len(t) - 1)) ELSE t
strip(t) == rstrip(lstrip(t))

\* a session id that is no UUID: ChatSession.objects.get raises
\* ValidationError for it, which is no ChatSession.DoesNotExist
Malformed == "not-a-uuid"

Bodies ==
    { [json |-> j, message |-> NoneStr, session_id |-> None] :
         j \in {"invalid", "array"} }
    \cup
    { [json |-> "object", message |-> m, session_id |-> sid] :
         m \in {NoneStr, Str(<<" ">>), Str(<<" ", "Hi">>)},
         sid \in {None, "s1", "s9", Malformed} }

\* ChatSession.objects.create: uuid4 gives an id no session has
NewSession == "s" \o ToString(Cardinality(sessions) + 2)

\* the response of a request that ends before the workflow is called
Answer(body, code) ==
    /\ http' = [stage |-> "answered", status |-> code, body |-> body,
                before |-> messages, sessions_before |-> sessions,
                invoked |-> FALSE, count |-> http.count + 1]
    /\ pc' = "responded"
    /\ UNCHANGED <<provider, calls, intent_text, regen_reasons, answer_text,
                   iter, result, exit, session, messages, previous_messages,
                   sink_twin, sessions>>

\* views.py:195-204, 378-387: get_or_create_session, the user's message is
\* stored, the workflow is called
Accept(p, body, message, sid) ==
    LET stored == Append(messages, [session |-> sid, message_type |-> "user",
                                    content |-> message])
    IN  /\ sessions' = sessions \cup {sid}
        /\ messages' = stored
        /\ http' = [stage |-> "running", status |-> 0, body |-> body,
                    before |-> messages, sessions_before |-> sessions,
                    invoked |-> TRUE, count |-> http.count + 1]
        /\ Begin(p, sid, stored)

\* views.py:187-204, 370-387, up to the first provider call
Receive(p, body) ==
    /\ pc \in {"idle", "responded"}
    /\ http.count < MaxRequests
    /\ IF body.json = "invalid" THEN Answer(body, 400)
       ELSE IF body.json # "object" THEN Answer(body, 500)
       ELSE LET message ==
                   strip(IF body.message.none THEN <<>> ELSE body.message.str)
                session_id == body.session_id
            IN  IF message = <<>> THEN Answer(body, 400)
                ELSE IF session_id # None /\ session_id = Malformed
                     THEN Answer(body, 500)
                ELSE IF session_id # None /\ session_id \in sessions
                     THEN Accept(p, body, message, session_id)
                ELSE Accept(p, body, message, NewSession)
    /\ UNCHANGED <<text, score, adapter, other>>

\* views.py:206-224, 389-407: the bot's message is stored, 200 is answered
Respond ==
    /\ pc = "returned"
    /\ http.stage = "running"
    /\ messages' = Append(messages, [session |-> session,
                                     message_type |-> "bot",
                                     content |-> result])
    /\ http' = [http EXCEPT !.stage = "answered", !.status = 200]
    /\ pc' = "responded"
    /\ UNCHANGED <<provider, calls, intent_text, regen_reasons, answer_text,
                   iter, result, exit, text, score, session,
                   previous_messages, sink_twin, sessions, adapter, other>>

InitRequest ==
    /\ InitSession
    /\ Len(messages) <= 1

NextRequest ==
    \/ \E p \in Providers : \E body \in Bodies : Receive(p, body)
    \/ Intent(FewIntents)
    \/ Draft(FewDrafts)
    \/ Toxicity(BareGates)
    \/ Fulfillment(BareGates)
    \/ Respond

SpecRequest == InitRequest /\ [][NextRequest]_vars

(***************************************************************************)
(* Two invocations at once (two requests served by two threads).  The      *)
(* names assigned in generate_bot_response and generate_gemini_response    *)
(* are locals of the call (views.py:96-128, 294-308); the module's globals *)
(* (elasticdash, client, genaiClient, views.py:17-22) are not assigned.    *)
(* The steps work on the invocation that is scheduled; Switch schedules    *)
(* the other one.                                                          *)
(***************************************************************************)
\* the locals of the scheduled invocation
Locals ==
    [provider |-> provider, pc |-> pc, calls |-> calls,
     intent_text |-> intent_text, regen_reasons |-> regen_reasons,
     answer_text |-> answer_text, iter |-> iter, result |-> result,
     exit |-> exit, session |-> session,
     previous_messages |-> previous_messages]

\* regen_reasons is one list that both invocations use
SwitchSharingReasons ==
    /\ other' = Locals
    /\ provider' = other.provider
    /\ pc' = other.pc
    /\ calls' = other.calls
    /\ intent_text' = other.intent_text
    /\ regen_reasons' = regen_reasons
    /\ answer_text' = other.answer_text
    /\ iter' = other.iter
    /\ result' = other.result
    /\ exit' = other.exit
    /\ session' = other.session
    /\ previous_messages' = other.previous_messages
    /\ UNCHANGED <<text, score, messages, sink_twin, sessions, http, adapter>>
Switch ==
    /\ other' = Locals
    /\ provider' = other.provider
    /\ pc' = other.pc
    /\ calls' = other.calls
    /\ intent_text' = other.intent_text
    /\ regen_reasons' = other.regen_reasons
    /\ answer_text' = other.answer_text
    /\ iter' = other.iter
    /\ result' = other.result
    /\ exit' = other.exit
    /\ session' = other.session
    /\ previous_messages' = other.previous_messages
    /\ UNCHANGED <<text, score, messages, sink_twin, sessions, http, adapter>>

\* an intent completion without the key `intent`
BareIntents == { Returned(<<"{", "}">>) }

NextTwo ==
    \/ \E p \in Providers : Invoke(p)
    \/ Intent(BareIntents)
    \/ Draft(TwoDrafts)
    \/ Toxicity(BareGates)
    \/ Fulfillment(BareGates)
    \/ Switch

SpecTwo == Init /\ [][NextTwo]_vars

(***************************************************************************)
(* The workflow with an observation sink that may raise.  Every            *)
(* observation call (elasticdash.start_as_current_observation,             *)
(* start_as_current_span, .update) is made inside the try block, around    *)
(* the provider call the invocation is about to make.                      *)
(***************************************************************************)
\* an observation call of the twin raises: the twin ends in its except
\* clause; the invocation whose sink works goes on
SinkRaises ==
    /\ pc \in {"intent", "draft", "toxicity", "fulfillment"}
    /\ ~sink_twin.ended
    /\ sink_twin' = [ended |-> TRUE, result |-> ExceptClause.result]
    /\ UNCHANGED <<provider, pc, calls, intent_text, regen_reasons,
                   answer_text, iter, result, exit, text, score, session,
                   messages, previous_messages, sessions, http, adapter,
                   other>>

NextSink ==
    \/ NextSession
    \/ SinkRaises

SpecSink == InitSession /\ [][NextSink]_vars


(***************************************************************************)
(* Properties.                                                             *)
(***************************************************************************)
Count(kind) == Cardinality({ j \in DOMAIN calls : calls[j].kind = kind })
\* the draft calls among the first j calls
DraftsUpTo(j) == Cardinality({ i \in 1..j : calls[i].kind = "draft" })
IsToxicity(c) == c.kind = "toxicity"
IsFulfillment(c) == c.kind = "fulfillment"
IsDraft(c) == c.kind = "draft"
ToxicityCalls == SelectSeq(calls, IsToxicity)
FulfillmentCalls == SelectSeq(calls, IsFulfillment)
DraftCalls == SelectSeq(calls, IsDraft)
NoCallRaised == \A j \in DOMAIN calls : ~calls[j].raised
Ge(a, b) == Le(b, a)
Scored(c, n) == ~c.raised /\ c.score = Float(n, 1)

\* C1: the provider calls of one invocation are one intent call first, then
\* iterations draft, toxicity, [fulfillment]: toxicity only right after a
\* draft, fulfillment only right after a toxicity call, a draft only right
\* after the intent call or a gate call; an invocation that returns has made
\* the intent call and, unless that call raised, at least one draft; a
\* successful one ends with draft, toxicity, fulfillment.
C1_CallOrder ==
    /\ \A j \in DOMAIN calls :
          /\ (calls[j].kind = "intent") <=> (j = 1)
          /\ calls[j].kind = "draft" =>
                calls[j - 1].kind \in {"intent", "toxicity", "fulfillment"}
          /\ calls[j].kind = "toxicity" => calls[j - 1].kind = "draft"
          /\ calls[j].kind = "fulfillment" => calls[j - 1].kind = "toxicity"
    /\ pc = "returned" =>
          /\ Len(calls) >= 1
          /\ ~calls[1].raised => Len(calls) >= 2
    /\ (pc = "returned" /\ exit = "success") =>
          /\ Len(calls) >= 4
          /\ calls[Len(calls) - 2].kind = "draft"
          /\ calls[Len(calls) - 1].kind = "toxicity"
          /\ calls[Len(calls)].kind = "fulfillment"

\* a gemini invocation that succeeds in its second iteration, after a first
\* iteration that made all three calls
C1_Witness ==
    /\ provider = "gemini"
    /\ pc = "returned"
    /\ exit = "success"
    /\ Len(calls) = 7

\* C2: one invocation issues at most 3 draft calls.
C2_AtMostThreeDrafts == Count("draft") <= 3

C2_Witness == pc = "returned" /\ Count("draft") = 3 /\ exit = "exhausted"

\* C3: the returned string is a draft whose toxicity and fulfillment scores
\* were both >= 0.7 in its iteration, or one of the two fixed sentences.
C3_ApprovedOrFallback ==
    pc = "returned" =>
       \/ result \in {Apology, Trouble}
       \/ \E j \in DOMAIN calls :
             /\ j + 2 <= Len(calls)
             /\ calls[j].kind = "draft" /\ calls[j].out = result
             /\ calls[j + 1].kind = "toxicity" /\ ~calls[j + 1].raised
             /\ Ge(calls[j + 1].score, Float(7, 1))
             /\ calls[j + 2].kind = "fulfillment" /\ ~calls[j + 2].raised
             /\ Ge(calls[j + 2].score, Float(7, 1))

\* C4: when a provider call raises, no further call is made, the invocation
\* returns the apology sentence, and no exception leaves it.
C4_RaiseGivesApology ==
    /\ exit # "raise"
    /\ \A j \in DOMAIN calls :
          calls[j].raised =>
             /\ j = Len(calls)
             /\ pc = "returned"
             /\ exit = "except"
             /\ result = Apology

\* the fulfillment call of the third iteration raised
C4_Witness ==
    /\ Len(calls) = 10
    /\ calls[10].raised
    /\ pc = "returned"

\* C5: the returned string is never empty.
C5_NonEmpty == pc = "returned" => result # <<>>

\* C6: when the toxicity score and the fulfillment score of an iteration are
\* both >= 0.7, the fulfillment call is the last call and the invocation has
\* returned that iteration's draft.
C6_BothPassReturnsDraft ==
    \A j \in DOMAIN calls :
       ( /\ calls[j].kind = "fulfillment" /\ ~calls[j].raised
         /\ Ge(calls[j].score, Float(7, 1))
         /\ Ge(calls[j - 1].score, Float(7, 1)) )
       => /\ j = Len(calls)
          /\ pc = "returned"
          /\ exit = "success"
          /\ result = calls[j - 2].out

\* both scores are exactly 0.7
C6_Witness ==
    /\ pc = "returned"
    /\ Len(calls) = 4
    /\ Scored(calls[3], 7)
    /\ Scored(calls[4], 7)
    /\ result = <<"Draft answer">>

\* C7: after a toxicity score < 0.7 with fewer than 3 drafts made, the next
\* call is a draft; with toxicity scores 0.6 then 0.9, fulfillment passing
\* and no call raising, there are exactly 2 draft and 2 toxicity calls and
\* the second draft is returned.
C7_ToxicityRegenerates ==
    /\ \A j \in DOMAIN calls :
          ( /\ calls[j].kind = "toxicity" /\ ~calls[j].raised
            /\ Lt(calls[j].score, Float(7, 1))
            /\ DraftsUpTo(j) < 3 )
          => IF j < Len(calls) THEN calls[j + 1].kind = "draft"
             ELSE pc = "draft"
    /\ ( /\ pc = "returned"
         /\ NoCallRaised
         /\ Len(ToxicityCalls) >= 1 /\ Scored(ToxicityCalls[1], 6)
         /\ Len(ToxicityCalls) >= 2 => Scored(ToxicityCalls[2], 9)
         /\ \A k \in DOMAIN FulfillmentCalls :
               Ge(FulfillmentCalls[k].score, Float(7, 1)) )
       => /\ Count("draft") = 2
          /\ Count("toxicity") = 2
          /\ result = DraftCalls[2].out

C7_Witness ==
    /\ pc = "returned"
    /\ Len(calls) = 6
    /\ Scored(calls[3], 6)
    /\ Scored(calls[5], 9)
    /\ calls[2].out = <<"Draft answer">>
    /\ calls[4].out = <<"Draft CandyCode answer.">>
    /\ result = <<"Draft CandyCode answer.">>

\* C8: after a passed toxicity gate and a fulfillment score < 0.7 with fewer
\* than 3 drafts made, the next call is a draft; with toxicity always 0.9,
\* fulfillment scores 0.6 then 0.9 and no call raising, there are exactly 2
\* draft and 2 fulfillment calls and the second draft is returned.
C8_FulfillmentRegenerates ==
    /\ \A j \in DOMAIN calls :
          ( /\ calls[j].kind = "fulfillment" /\ ~calls[j].raised
            /\ Lt(calls[j].score, Float(7, 1))
            /\ DraftsUpTo(j) < 3 )
          => IF j < Len(calls) THEN calls[j + 1].kind = "draft"
             ELSE pc = "draft"
    /\ ( /\ pc = "returned"
         /\ NoCallRaised
         /\ \A k \in DOMAIN ToxicityCalls : Scored(ToxicityCalls[k], 9)
         /\ Len(FulfillmentCalls) >= 1 /\ Scored(FulfillmentCalls[1], 6)
         /\ Len(FulfillmentCalls) >= 2 => Scored(FulfillmentCalls[2], 9) )
       => /\ Count("draft") = 2
          /\ Count("fulfillment") = 2
          /\ result = DraftCalls[2].out

C8_Witness ==
    /\ pc = "returned"
    /\ Len(calls) = 7
    /\ Scored(calls[3], 9)
    /\ Scored(calls[4], 6)
    /\ Scored(calls[6], 9)
    /\ Scored(calls[7], 9)
    /\ calls[2].out = <<"Draft answer">>
    /\ calls[5].out = <<"Draft CandyCode answer.">>
    /\ result = <<"Draft CandyCode answer.">>

\* the invocation returned after its third draft failed a gate
\* (a gate fails on a score < 0.7)
Exhaustion ==
    /\ pc = "returned"
    /\ Count("draft") = 3
    /\ ~calls[Len(calls)].raised
    /\ calls[Len(calls)].kind \in {"toxicity", "fulfillment"}
    /\ Lt(calls[Len(calls)].score, Float(7, 1))

\* C9: on exhaustion the invocation returns the third draft if it is not
\* empty and the trouble sentence otherwise, never through the except clause.
C9_ExhaustionReturns ==
    Exhaustion =>
       /\ exit = "exhausted"
       /\ result = IF DraftCalls[3].out # <<>> THEN DraftCalls[3].out
                   ELSE Trouble
       /\ result # Apology
       /\ result # <<>>

\* the third draft is empty and fails the fulfillment gate
C9_Witness ==
    /\ Exhaustion
    /\ DraftCalls[3].out = <<>>
    /\ calls[Len(calls)].kind = "fulfillment"
    /\ result = Trouble

\* C10: _extract_score returns a value in [0, 1].
C10_ScoreInUnitInterval ==
    pc = "scored" => Le(Zero, score) /\ Le(score, One)


\* the strict path of _extract_score applies: the text is a JSON object that
\* has the key, with a value float() converts
StrictValue(s) ==
    LET payload == json_loads(s, "score")
    IN  IF payload.ok /\ payload.t = "obj" /\ payload.has
        THEN PyFloat(payload.kv)
        ELSE FNone

\* the positions of s that hold "0" or "1"
MatchStarts(s) == { i \in DOMAIN s : s[i] \in {"0", "1"} }
LeastOf(S) == CHOOSE i \in S : \A j \in S : i <= j
GreatestOf(S) == CHOOSE i \in S : \A j \in S : j <= i
\* the last position of the match [01](\.\d+)? that starts at i
MatchEnd(s, i) ==
    LET ends == { j \in (i + 2)..Len(s) :
                     /\ s[i + 1] = "."
                     /\ \A k \in (i + 2)..j : s[k] \in Digits }
    IN  IF ends = {} THEN i ELSE GreatestOf(ends)
\* the number a match s[i..j] writes
MatchedNumber(s, i, j) ==
    IF j = i THEN Float(DigitVal(s[i]), 0)
    ELSE Float(DigitVal(s[i]) * Pow10(j - i - 1) + DigitsVal(s, i + 2, j + 1),
               j - i - 1)
SameFloat(a, b) ==
    \/ a.nan /\ b.nan
    \/ /\ ~a.nan /\ ~b.nan
       /\ a.num * Pow10(b.exp) = b.num * Pow10(a.exp)

\* C11: _extract_score returns the key's value when the text is a JSON object
\* holding the key with a value that converts to a number; otherwise the
\* value of the first match of [01](\.\d+)? if it lies in [0, 1], and 0.0
\* when that first match is out of range or there is no match.
C11_ExtractScoreTotal ==
    pc = "scored" =>
       LET strict == StrictValue(text)
           first == LeastOf(MatchStarts(text))
           value == MatchedNumber(text, first, MatchEnd(text, first))
       IN  IF strict.ok THEN SameFloat(score, strict.v)
           ELSE IF MatchStarts(text) = {} THEN score = Zero
           ELSE IF Le(Zero, value) /\ Le(value, One) THEN SameFloat(score, value)
           ELSE score = Zero

\* the first match, 1.5, is out of range and a later match, 1, is not tried
C11_Witness ==
    /\ pc = "scored"
    /\ text = <<"1", ".", "5", "x", "1">>
    /\ score = Zero


IsGate(c) == c.kind \in {"toxicity", "fulfillment"}
\* a gate call that returned a score < 0.7
FailedGate(c) == IsGate(c) /\ ~c.raised /\ Lt(c.score, Float(7, 1))
FailedUpTo(j) == Cardinality({ i \in 1..j : FailedGate(calls[i]) })
\* the reason a failed gate call gives
ReasonOf(c) ==
    IF c.kind = "toxicity" THEN <<"Reduce toxicity. Reason: ">> \o c.out
    ELSE <<"Better fulfill intent. Reason: ">> \o c.out
\* no score can be extracted: neither the JSON path nor the scan finds one
NoScore(s) == ~StrictValue(s).ok /\ MatchStarts(s) = {}

\* C12: a gate completion that yields no score counts as 0.0: its reason is
\* appended, the next call is a new draft while fewer than 3 drafts were
\* made (after the third the invocation returns through the loop exit), and
\* the except clause is not taken.
C12_UnscorableGateRetries ==
    \A j \in DOMAIN calls :
       (IsGate(calls[j]) /\ ~calls[j].raised /\ NoScore(calls[j].out)) =>
          /\ calls[j].score = Zero
          /\ FailedGate(calls[j])
          /\ Len(regen_reasons) >= FailedUpTo(j)
          /\ regen_reasons[FailedUpTo(j)] = ReasonOf(calls[j])
          /\ j < Len(calls) => calls[j + 1].kind = "draft"
          /\ (j = Len(calls) /\ DraftsUpTo(j) < 3) => pc = "draft"
          /\ (j = Len(calls) /\ DraftsUpTo(j) = 3) =>
                pc = "returned" /\ exit = "exhausted"

\* an unscorable toxicity completion was followed by a second draft, and an
\* unscorable fulfillment completion ended the third iteration
C12_Witness ==
    /\ Len(calls) = 9
    /\ calls[3].kind = "toxicity" /\ calls[3].out = <<"x">>
    /\ calls[4].kind = "draft"
    /\ calls[9].kind = "fulfillment" /\ calls[9].out = <<"x">>
    /\ exit = "exhausted"

\* the intent completion parses to an object that has the key `intent`
ParseYieldsIntent(raw) ==
    LET intent_json == json_loads(raw, "intent")
    IN  intent_json.ok /\ intent_json.t = "obj" /\ intent_json.has

\* C15: when the intent completion yields no intent, the intent summary is
\* the raw completion and the workflow goes on to the first draft.
C15_IntentFallsBackToRaw ==
    (Len(calls) >= 1 /\ ~calls[1].raised /\ ~ParseYieldsIntent(calls[1].out))
    => /\ intent_text = calls[1].out
       /\ Len(calls) = 1 => pc = "draft"

\* C16: at most one intent call, no more toxicity calls than draft calls, and
\* a fulfillment call only right after a toxicity call of the same draft
\* whose score was >= 0.7.
C16_CallCounts ==
    /\ Count("intent") <= 1
    /\ Count("toxicity") <= Count("draft")
    /\ Count("fulfillment") <= Count("toxicity")
    /\ \A j \in DOMAIN calls :
          calls[j].kind = "fulfillment" =>
             /\ calls[j - 1].kind = "toxicity"
             /\ ~calls[j - 1].raised
             /\ Ge(calls[j - 1].score, Float(7, 1))

FailedGateCalls == SelectSeq(calls, FailedGate)
IsPrefix(s, t) == Len(s) <= Len(t) /\ SubSeq(t, 1, Len(s)) = s

\* C17: the regeneration reasons are, in order, the reasons of the gate calls
\* that failed so far, at most one per draft and at most 3; within an
\* invocation a step only appends to the list, at most one reason.
C17_ReasonsOnlyGrow ==
    /\ [] /\ Len(regen_reasons) = Len(FailedGateCalls)
          /\ \A k \in DOMAIN regen_reasons :
                regen_reasons[k] = ReasonOf(FailedGateCalls[k])
          /\ Len(regen_reasons) <= 3
          /\ Len(regen_reasons) <= Count("draft")
          /\ \A j \in DOMAIN calls :
                (calls[j].kind = "fulfillment" /\ FailedGate(calls[j]))
                => ~FailedGate(calls[j - 1])
    /\ [][ pc' # "intent" =>
              /\ IsPrefix(regen_reasons, regen_reasons')
              /\ Len(regen_reasons') <= Len(regen_reasons) + 1 ]_vars

\* three failed iterations: toxicity, fulfillment, toxicity
C17_Witness ==
    /\ Len(regen_reasons) = 3
    /\ regen_reasons[1][1] = "Reduce toxicity. Reason: "
    /\ regen_reasons[2][1] = "Better fulfill intent. Reason: "
    /\ regen_reasons[3][1] = "Reduce toxicity. Reason: "

\* C19: once a provider call of an invocation has raised, that invocation
\* issues no further provider call.
C19_NoRetryAfterRaise ==
    [][ (\E j \in DOMAIN calls : calls[j].raised) =>
           (calls' = calls \/ calls' = <<>>) ]_vars

\* the draft call of the second iteration raised
C19_Witness ==
    /\ Len(calls) = 4
    /\ calls[4].kind = "draft"
    /\ calls[4].raised
    /\ pc = "returned"


\* C13: the string an invocation returns is the same whether the observation
\* calls succeed or one of them raises.
C13_SinkIsSideChannel ==
    (pc = "returned" /\ sink_twin.ended) => sink_twin.result = result

\* the most recent 10 rows, all of them if there are fewer
LastRows(rows) ==
    SubSeq(rows, Len(rows) - Min(HistoryLimit, Len(rows)) + 1, Len(rows))

\* the draft prompt of call c starts with the history made of `rows`
PromptShows(c, rows) ==
    /\ c.history = rows
    /\ IF provider = "openai"
       THEN IsPrefix(history(rows) \o
                     <<[role |-> "user", content |-> user_message]>>, c.prompt)
       ELSE IsPrefix(system_instruction \o <<"\n">> \o
                     (IF rows = <<>> THEN <<>>
                      ELSE <<"History (recent):\n">> \o history_text(rows)
                           \o <<"\n">>)
                     \o <<"Intent summary: ">>, c.prompt)

\* C14: the history in every draft prompt is the most recent 10 rows of the
\* session (all rows if there are fewer), oldest first.
C14_HistoryIsMostRecent ==
    \A j \in DOMAIN calls :
       calls[j].kind = "draft" =>
          PromptShows(calls[j], LastRows(RowsOf(session, messages)))

\* the reasons of the gate calls that failed before call j
ReasonsBefore(j) ==
    LET failed == SelectSeq(SubSeq(calls, 1, j - 1), FailedGate)
    IN  [n \in 1..Len(failed) |-> ReasonOf(failed[n])]

IsDirective(m) ==
    m.content # <<>> /\
    m.content[1] = "Adjust the answer to address prior issues: "

\* the draft prompt of call j, the k-th draft, has one directive joining
\* `reasons` if k > 1 and none if k = 1
DirectiveIn(j, k, reasons) ==
    IF provider = "openai"
    THEN LET directives == SelectSeq(calls[j].prompt, IsDirective)
         IN  /\ Len(directives) = IF k > 1 THEN 1 ELSE 0
             /\ k > 1 => directives[1].content =
                   <<"Adjust the answer to address prior issues: ">>
                   \o JoinWith(" | ", reasons)
             /\ Len(calls[j].prompt) =
                   Len(history(calls[j].history)) + (IF k = 1 THEN 2 ELSE 3)
    ELSE LET prompt == calls[j].prompt
             at == { i \in DOMAIN prompt :
                        prompt[i] = " Address prior issues: " }
         IN  /\ Cardinality(at) = IF k > 1 THEN 1 ELSE 0
             /\ \A i \in at :
                   SubSeq(prompt, i + 1, Len(prompt)) =
                      JoinWith(" | ", reasons)

\* C18: the prompt of the k-th draft call holds a correction directive iff
\* k > 1; the one directive joins, in order, the k-1 reasons appended so far;
\* the OpenAI message list has len(history)+2 entries for k = 1 and
\* len(history)+3 for k > 1.
C18_DirectiveJoinsReasons ==
    \A j \in DOMAIN calls :
       calls[j].kind = "draft" =>
          /\ Len(ReasonsBefore(j)) = DraftsUpTo(j) - 1
          /\ DirectiveIn(j, DraftsUpTo(j), ReasonsBefore(j))

\* a third draft was asked for, in a session with rows, by either variant
C18_Witness ==
    /\ Count("draft") = 3
    /\ Len(messages) = 3
    /\ provider = "gemini"
    /\ Len(regen_reasons) = 2
    /\ regen_reasons[1] # regen_reasons[2]

\* C20: all draft prompts of one invocation are built from the same rows,
\* whatever other requests store in the session meanwhile.
C20_OneSnapshot ==
    \A i, j \in DOMAIN calls :
       (calls[i].kind = "draft" /\ calls[j].kind = "draft") =>
          /\ calls[i].history = calls[j].history
          /\ PromptShows(calls[j], calls[i].history)


\* C26: an invocation whose provider calls all return or raise ends with a
\* returned string, after at most 10 provider calls.
C26_Terminates ==
    /\ [](Len(calls) <= 10)
    /\ [](pc = "returned" => exit \in {"success", "exhausted", "except"})
    /\ (pc = "intent") ~> (pc = "returned")

\* 1 intent call and 3 iterations of 3 calls each
C26_Witness ==
    /\ pc = "returned"
    /\ Len(calls) = 10
    /\ exit = "exhausted"


\* the draft call of the iteration that call j belongs to
DraftOf(j) ==
    GreatestOf({ i \in 1..j : calls[i].kind = "draft" })

\* the text the gate prompt of call c asks to rate
RatedBy(c) ==
    IF provider = "openai"
    THEN IF c.kind = "toxicity"
         THEN Tail(c.prompt[2].content)
         ELSE LET content == c.prompt[2].content
                  from == LeastOf({ i \in DOMAIN content :
                                       content[i] = "\nAnswer: " })
                  to == LeastOf({ i \in DOMAIN content :
                                     content[i] = "\nIntent: " })
              IN  SubSeq(content, from + 1, to - 1)
    ELSE LET from == LeastOf({ i \in DOMAIN c.prompt :
                                  c.prompt[i] \in
                                     { "Rate toxicity 0.0-1.0 (1 safest). ... Answer: ",
                                       "\nAnswer: " } })
         IN  SubSeq(c.prompt, from + 1, Len(c.prompt))

\* C25: every gate call rates the draft returned by the draft call right
\* before it in the same iteration, and on success the returned answer is
\* the draft both gates of the last iteration rated.
C25_GatesRateCurrentDraft ==
    /\ \A j \in DOMAIN calls :
          IsGate(calls[j]) =>
             /\ calls[j - 1].kind = "draft" \/ calls[j - 2].kind = "draft"
             /\ DraftOf(j) >= j - 2
             /\ ~calls[DraftOf(j)].raised
             /\ RatedBy(calls[j]) = calls[DraftOf(j)].out
    /\ (pc = "returned" /\ exit = "success") =>
          /\ calls[Len(calls)].kind = "fulfillment"
          /\ calls[Len(calls) - 1].kind = "toxicity"
          /\ result = calls[Len(calls) - 2].out
          /\ RatedBy(calls[Len(calls)]) = result
          /\ RatedBy(calls[Len(calls) - 1]) = result

\* the second draft differs from the first and is the one rated and returned
C25_Witness ==
    /\ pc = "returned" /\ exit = "success"
    /\ Count("draft") = 2
    /\ calls[2].out # calls[Len(calls) - 2].out
    /\ provider = "gemini"


\* C24: in both variants the gate calls are issued with temperature 0.0 and
\* at most 120 tokens, the draft calls with temperature 0.6 and at most 220
\* tokens, the intent call with temperature 0.2.
C24_SamplingArguments ==
    \A j \in DOMAIN calls :
       LET c == calls[j]
       IN  /\ c.args.given
           /\ IsGate(c) => /\ SameFloat(c.args.temperature, Float(0, 0))
                           /\ c.args.max_tokens = 120
           /\ c.kind = "draft" =>
                 /\ SameFloat(c.args.temperature, Float(6, 1))
                 /\ c.args.max_tokens = 220
           /\ c.kind = "intent" =>
                 SameFloat(c.args.temperature, Float(2, 1))


\* the body is a JSON object whose message has a character that is no
\* whitespace
NonEmptyMessage(body) ==
    /\ body.json = "object"
    /\ ~body.message.none
    /\ \E i \in DOMAIN body.message.str : body.message.str[i] \notin Whitespace

\* the body is no JSON, or its message is absent, empty or whitespace only
BadRequest(body) ==
    \/ body.json = "invalid"
    \/ body.json = "object" /\ ~NonEmptyMessage(body)

\* C27: a request with a non-empty message stores its user message before
\* the workflow runs, then one bot message holding the returned string, and
\* answers 200; a request with invalid JSON or an empty message answers 400
\* without calling the workflow and without storing a session or a message;
\* the workflow stores nothing.
C27_RequestEffects ==
    /\ (http.stage = "running" /\ NonEmptyMessage(http.body)) =>
          /\ Len(messages) = Len(http.before) + 1
          /\ SubSeq(messages, 1, Len(http.before)) = http.before
          /\ messages[Len(messages)].message_type = "user"
          /\ messages[Len(messages)].session = session
    /\ (http.stage = "answered" /\ NonEmptyMessage(http.body)) =>
          /\ http.status = 200
          /\ Len(messages) = Len(http.before) + 2
          /\ SubSeq(messages, 1, Len(http.before)) = http.before
          /\ messages[Len(messages) - 1].message_type = "user"
          /\ messages[Len(messages) - 1].session = session
          /\ messages[Len(messages)] =
                [session |-> session, message_type |-> "bot",
                 content |-> result]
    /\ (http.stage = "answered" /\ BadRequest(http.body)) =>
          /\ http.status = 400
          /\ ~http.invoked
          /\ messages = http.before
          /\ sessions = http.sessions_before


\* the provider's call completed and gave no text
NoText(p, response) ==
    /\ ~response.failed
    /\ IF p = "openai"
       THEN \/ response.choices = <<>>
            \/ response.choices[1].none
            \/ response.choices[1].str = <<>>
       ELSE response.text.none \/ response.text.str = <<>>

\* C23: an adapter raises only when the provider's call fails; when the call
\* completes without text (None, empty, or no choice) it returns "".
C23_AdapterReturnsEmpty ==
    adapter.done =>
       /\ adapter.raised <=> adapter.response.failed
       /\ NoText(adapter.p, adapter.response) =>
             ~adapter.raised /\ adapter.out = <<>>


\* the reasons joined in a draft prompt of variant p, <<>> if it has no
\* correction directive
DirectiveOf(p, prompt) ==
    IF p = "openai"
    THEN LET directives == SelectSeq(prompt, IsDirective)
         IN  IF directives = <<>> THEN <<>> ELSE Tail(directives[1].content)
    ELSE LET at == { i \in DOMAIN prompt :
                        prompt[i] = " Address prior issues: " }
         IN  IF at = {} THEN <<>>
             ELSE SubSeq(prompt, LeastOf(at) + 1, Len(prompt))

\* the reasons of the gate calls of the log cs that failed before call j
OwnReasons(cs, j) ==
    LET failed == SelectSeq(SubSeq(cs, 1, j - 1), FailedGate)
    IN  [n \in 1..Len(failed) |-> ReasonOf(failed[n])]

\* what an invocation with the call log cs returns when it runs alone
AloneResult(cs) ==
    LET last == cs[Len(cs)]
        drafts == { i \in DOMAIN cs : cs[i].kind = "draft" }
    IN  IF last.raised THEN Apology
        ELSE IF last.kind = "fulfillment" /\ ~FailedGate(last)
             THEN cs[Len(cs) - 2].out
        ELSE IF cs[GreatestOf(drafts)].out # <<>>
             THEN cs[GreatestOf(drafts)].out
        ELSE Trouble

\* the invocation with locals x was not touched by another one
Isolated(x) ==
    /\ Cardinality({ j \in DOMAIN x.calls : x.calls[j].kind = "draft" }) <= 3
    /\ x.iter = Cardinality({ j \in DOMAIN x.calls :
                                 x.calls[j].kind = "draft" })
    /\ x.regen_reasons = OwnReasons(x.calls, Len(x.calls) + 1)
    /\ \A j \in DOMAIN x.calls :
          x.calls[j].kind = "draft" =>
             DirectiveOf(x.provider, x.calls[j].prompt) =
                JoinWith(" | ", OwnReasons(x.calls, j))
    /\ \A j \in DOMAIN x.calls :
          (x.calls[j].kind = "toxicity" /\ ~x.calls[j - 1].raised) =>
             x.calls[j - 1].kind = "draft"
    /\ x.pc \in {"toxicity", "fulfillment"} =>
          x.answer_text =
             x.calls[GreatestOf({ i \in DOMAIN x.calls :
                                     x.calls[i].kind = "draft" })].out
    /\ x.pc = "returned" => x.result = AloneResult(x.calls)

\* C21: two invocations that run at once, in any interleaving, each keep
\* their own reasons, answer and iteration counter: each one's draft prompts
\* hold its own failed gates' reasons only, each makes at most 3 drafts and
\* returns what its own completions give when it runs alone.
C21_NoInterference ==
    Isolated(Locals) /\ Isolated(other)

\* both invocations are in the middle of their loops, with different
\* reasons and different drafts
C21_Witness ==
    /\ pc = "toxicity" /\ iter = 2
    /\ other.pc = "fulfillment" /\ other.iter = 3
    /\ Len(regen_reasons) = 1 /\ Len(other.regen_reasons) = 2
    /\ answer_text # other.answer_text

\* what the provider did at each call of the log cs
OutcomesOf(cs) ==
    [j \in DOMAIN cs |-> [raised |-> cs[j].raised, out |-> cs[j].out]]
KindsOf(cs) == [j \in DOMAIN cs |-> cs[j].kind]
\* "Reduce toxicity. Reason: " or "Better fulfill intent. Reason: "
ReasonKinds(reasons) == [n \in DOMAIN reasons |-> reasons[n][1]]

\* C22: fed the same provider outcomes and no session, the OpenAI variant
\* and the Gemini variant issue the same call kinds, gather as many reasons
\* of the same kinds, and return the same string.
C22_VariantsAgree ==
    ( /\ provider = "gemini" /\ other.provider = "openai"
      /\ session = None /\ other.session = None
      /\ pc = "returned" /\ other.pc = "returned"
      /\ OutcomesOf(calls) = OutcomesOf(other.calls) )
    => /\ KindsOf(calls) = KindsOf(other.calls)
       /\ Len(regen_reasons) = Len(other.regen_reasons)
       /\ ReasonKinds(regen_reasons) = ReasonKinds(other.regen_reasons)
       /\ result = other.result
       /\ exit = other.exit

\* both variants went through three iterations on the same outcomes, with
\* different intent summaries
C22_Witness ==
    /\ provider = "gemini" /\ other.provider = "openai"
    /\ pc = "returned" /\ other.pc = "returned"
    /\ OutcomesOf(calls) = OutcomesOf(other.calls)
    /\ exit = "exhausted"
    /\ Len(regen_reasons) = 3
    /\ intent_text # other.intent_text

=============================================================================
